---- MODULE Spec2Model ----
(***************************************************************************)
(* lunrlust/utility: the progress reporter, the application built on it   *)
(* (main, displayMenu, setupDrives, the installers, the system check), one *)
(* tracked step call by call, and the logger module.  Each part has its    *)
(* own specification: Spec and SpecRate, SpecApp, SpecStep, SpecLog.       *)
(*                                                                         *)
(* Two variants of the progress utility exist in the sources:              *)
(*   variant A  src/unnamed/part_001           (speed = all-time average)  *)
(*   variant B  src/src/utils/logger.js:118-208 (speed = throttled sample) *)
(* Both are driven here side by side by the same calls with the same       *)
(* clock readings: barA is the bar of variant A, barB the bar of B.        *)
(*                                                                         *)
(* A bar is the cli-progress bar object as the sources use it: its total,  *)
(* its value (set by bar.update(value, ...)), the payload fields speed and *)
(* eta (merged by bar.update(..., payload)) and the fields the utility     *)
(* itself attaches (start, lastUpdate, lastValue).  "current" is the       *)
(* bar's value; the "reported" rate and ETA are the payload the utility    *)
(* hands to bar.update.                                                    *)
(*                                                                         *)
(* Time is in integer milliseconds (Date.now()).  Progress values are      *)
(* integers.  Quotients are exact rationals, rounded as                    *)
(* Number.prototype.toFixed rounds (half away from zero).                  *)
(***************************************************************************)
EXTENDS Integers, Sequences, FiniteSets, TLC

VARIABLES
  now,        \* the last reading of Date.now(), in ms
  made,       \* createProgressBar has returned the tracker
  barA, barB, \* the tracker of variant A and of variant B
  out,        \* number of console.log calls made by the utility
  call,       \* the last call made on the tracker
  ncalls,     \* number of updateProgress/completeProgress calls so far
  prevA, prevB, prevCall, prevOut, \* barA, barB, call, out before the last call
  mono,       \* all calls so far are updates, non-decreasing and <= total
  everCompleted, \* completeProgress has been called on the tracker
  scen,       \* position in the end-to-end scenario of the progress utility
  step, interval, \* the constant-rate driver: value step and ms between updates
  stopped,    \* stopAllProgress has stopped the multi bar
  threw,      \* a call on the tracker has raised an error
  \* --- the application: main, displayMenu and the operations ---
  pc,         \* where main/displayMenu/the running operation stands
  admin,      \* what isAdmin() returned: "none" (not asked), "yes", "no"
  exitCode,   \* -1 while the process runs, else its exit code
  started,    \* the kinds of work started so far
  action,     \* the menu choice being served
  confirmAll, \* the answer to the confirmAll prompt: "none", "yes", "no"
  stage,      \* complete setup: number of operations started
  rounds,     \* number of menu prompts answered
  caller,     \* who called checkSystemRequirements: "main" or "menu"
  probe,      \* what systeminformation reported to checkSystemRequirements
  checkResult, \* what checkSystemRequirements returned
  fsSize,     \* what si.fsSize() returned to setupDrives
  internalDisks, \* setupDrives: the disks left by the filter
  selectedDrives, \* setupDrives: the indexes ticked in the checkbox prompt
  confirmFormat, \* setupDrives: the answer to confirmFormat
  di,         \* setupDrives: position in selectedDrives
  formatCmds, \* setupDrives: the format commands executed
  folders,    \* createFolderStructure: what the last run left on the drive
  category,   \* the installer running: "gaming" or "dev"
  components, \* the components ticked in the checkbox prompt
  ci,         \* position in components
  ran,        \* the install steps called, in order
  doneMsg,    \* the completion message of the installer was printed
  running,    \* number of install steps and format commands in progress
  anyTracker, \* the run has created a progress tracker
  \* --- one download step / one createFolderStructure, call by call ---
  kind,       \* "download" or "folders"
  phase,      \* where the step stands
  temp,       \* the step's temp directory: "none", "made", "removed", "stuck"
  downloaded, \* downloadedSize of the data handler
  fi,         \* createFolderStructure: entries of folderStructure done
  \* --- the logger module, both variants, call by call ---
  logClock,   \* the clock reading new Date() gives initLogger
  nlog,       \* number of initLogger/getLogger calls made
  loggerV1,   \* first variant: the module variable logger (0 is null)
  createdV1,  \* first variant: number of loggers created
  filesV1,    \* first variant: the timestamps of the log file pairs
  retV1,      \* first variant: the loggers returned so far
  createdV2,  \* second variant: number of loggers created
  defaultV2,  \* second variant: winston.loggers' 'default' (0 is absent)
  filesV2,    \* second variant: the timestamps of the log file pairs
  retV2       \* second variant: the loggers returned so far

progVars == <<now, made, barA, barB, out, call, ncalls, prevA, prevB, prevCall,
              prevOut, mono, everCompleted, scen, step, interval, stopped, threw>>

appVars == <<pc, admin, exitCode, started, action, confirmAll, stage, rounds,
             caller, probe, checkResult, fsSize, internalDisks, selectedDrives,
             confirmFormat, di, formatCmds, folders, category, components, ci,
             ran, doneMsg, running, anyTracker>>

stepVars == <<kind, phase, temp, downloaded, fi>>

logVars == <<logClock, nlog, loggerV1, createdV1, filesV1, retV1, createdV2,
             defaultV2, filesV2, retV2>>

vars == <<progVars, appVars, stepVars, logVars>>

(* ------------------------------ bounds --------------------------------- *)

\* number of updateProgress/completeProgress calls made on the tracker
MaxCalls == 3

\* number of updates of a constant-rate run
MaxSteps == 10

(* ------------------------------ inputs --------------------------------- *)

\* totals handed to createProgressBar
Totals == {-2, 0, 4, 100}

\* values handed to updateProgress for a tracker of the given total:
\* negative, zero, inside the range, the total itself and above it
ValuesFor(total) ==
  IF total = 100 THEN {-1, 0, 50, 100, 101}
  ELSE IF total = 4 THEN {-1, 0, 1, 2, 3, 4, 5}
  ELSE {-1, 0, 1}

\* milliseconds between two readings of the clock
Deltas == {0, 50, 100, 10000}

\* milliseconds between the two Date.now() readings of createProgressBar
Skews == {0, 1}

\* the throttle of variant B: 0.1 s
ThrottleMs == 100

(* --------------------------- number formatting ------------------------- *)

Abs(x) == IF x < 0 THEN -x ELSE x

\* fraction digits of the speed text: .toFixed(2)
SpeedDigits == 2

\* fraction digits of the ETA text: .toFixed(0)
EtaDigits == 0

\* the range of toPrecision, which rejects 0 digits
ToFixedThrowsAsToPrecision(digits) == digits < 1 \/ digits > 100

\* toFixed raises a RangeError for fraction digits outside 0..100
ToFixedThrows(digits) == digits < 0 \/ digits > 100

Pow10(d) == IF d = 0 THEN 1 ELSE IF d = 1 THEN 10 ELSE 100

\* display texts: k is the kind of text, n the digits of a number (for two
\* fraction digits n is in hundredths), u the unit suffix appended by the code
Txt(k, n, u) == [k |-> k, n |-> n, u |-> u]

NA == Txt("NA", 0, "")

Done == Txt("Done", 0, "")

Zero == Txt("num", 0, "")

\* (num/den).toFixed(digits) for den # 0: nearest n, ties to the larger
\* magnitude, "-" prefix whenever the number is negative ("-0", "-0.00")
ToFixed(num, den, digits) ==
  LET neg == (num < 0) # (den < 0)
      a   == Abs(num) * Pow10(digits)
      b   == Abs(den)
      n   == (2 * a + b) \div (2 * b)
  IN  IF num = 0 THEN Txt("num", 0, "")
      ELSE IF ~neg THEN Txt("num", n, "")
      ELSE IF n = 0 THEN Txt("negzero", 0, "")
      ELSE Txt("num", -n, "")

\* (num/0).toFixed(digits): Infinity, -Infinity and NaN print as such
ToFixedDivZero(num) ==
  IF num > 0 THEN Txt("Inf", 0, "")
  ELSE IF num < 0 THEN Txt("NegInf", 0, "")
  ELSE Txt("NaN", 0, "")

WithUnit(t, u) == [t EXCEPT !.u = u]

(* ------------------------------ the bar -------------------------------- *)

NoBar == [total |-> 0, value |-> 0, speed |-> NA, eta |-> NA,
          start |-> 0, lastUpdate |-> 0, lastValue |-> 0]

\* multiBar.create(totalSize, totalSize, ...): the bar starts full
MultiBarCreateFull(totalSize) ==
  [total |-> totalSize, value |-> totalSize, speed |-> NA, eta |-> NA,
   start |-> 0, lastUpdate |-> 0, lastValue |-> 0]

\* multiBar.create(totalSize, 0, {speed: "N/A", eta: "N/A"})
MultiBarCreate(totalSize) ==
  [total |-> totalSize, value |-> 0, speed |-> NA, eta |-> NA,
   start |-> 0, lastUpdate |-> 0, lastValue |-> 0]

\* bar.update that never lets the value go down
BarUpdateKeepMax(bar, value, speed, eta) ==
  [bar EXCEPT !.value = IF value > bar.value THEN value ELSE bar.value,
              !.speed = speed, !.eta = eta]

\* bar.update that clamps the value to [0, total]
BarUpdateClamped(bar, value, speed, eta) ==
  [bar EXCEPT !.value = IF value > bar.total THEN bar.total
                        ELSE IF value < 0 THEN 0 ELSE value,
              !.speed = speed, !.eta = eta]

\* bar.increment(value, {speed, eta}) in place of bar.update
BarUpdateIncrement(bar, value, speed, eta) ==
  [bar EXCEPT !.value = bar.value + value, !.speed = speed, !.eta = eta]

\* bar.update(value, {speed, eta}): sets the value, merges the payload
BarUpdate(bar, value, speed, eta) ==
  [bar EXCEPT !.value = value, !.speed = speed, !.eta = eta]

\* bar.update(value): sets the value, the payload stays
BarUpdateValue(bar, value) ==
  [bar EXCEPT !.value = value]

(* ------------------------- rate and ETA arithmetic --------------------- *)

\* (bar.total / (value / elapsedTime)).toFixed(0): the value not subtracted
EtaTextWholeJob(total, value, elapsedMs) ==
  IF value = 0 THEN ToFixedDivZero(total)
  ELSE ToFixed(total * elapsedMs, value * 1000, 0)

\* ((bar.total - value) / value).toFixed(0): the elapsed time left out
EtaTextNoElapsed(total, value, elapsedMs) ==
  IF value = 0 THEN ToFixedDivZero(total - value)
  ELSE ToFixed(total - value, value, 0)

\* ((bar.total - value) / (value / elapsedTime)).toFixed(0), elapsedTime in
\* seconds = elapsedMs / 1000, elapsedMs > 0
EtaText(total, value, elapsedMs) ==
  IF value = 0 THEN ToFixedDivZero(total - value)
  ELSE ToFixed((total - value) * elapsedMs, value * 1000, EtaDigits)

\* elapsedTime > 0 ? ... .toFixed(0) : 'N/A'
EtaOf(total, value, elapsedMs) ==
  IF elapsedMs > 0 THEN EtaText(total, value, elapsedMs) ELSE NA

\* variant A: elapsedTime > 0 ? (value / elapsedTime).toFixed(2) + ' MB/s' : 'N/A'
SpeedA(value, elapsedMs) ==
  IF elapsedMs > 0 THEN WithUnit(ToFixed(value * 1000, elapsedMs, SpeedDigits), " MB/s")
  ELSE NA

\* variant B: timeDiff >= 0.1
Throttled(bar, t) == t - bar.lastUpdate < ThrottleMs

\* variant B: "N/A" unless timeDiff >= 0.1, then (valueDiff / timeDiff).toFixed(2)
SpeedB(bar, t, value) ==
  IF Throttled(bar, t) THEN NA
  ELSE ToFixed((value - bar.lastValue) * 1000, t - bar.lastUpdate, SpeedDigits)

(* --------------------------- the operations ---------------------------- *)

\* variant A createProgressBar: bar.start = Date.now()
CreateA(totalSize, t) ==
  [MultiBarCreate(totalSize) EXCEPT !.start = t]

\* variant B createProgressBar: start, then lastUpdate from a second reading
CreateB(totalSize, t, t2) ==
  [MultiBarCreate(totalSize) EXCEPT !.start = t, !.lastUpdate = t2, !.lastValue = 0]

\* variant A updateProgress at clock reading t
UpdateA(bar, t, value) ==
  BarUpdate(bar, value, SpeedA(value, t - bar.start),
            EtaOf(bar.total, value, t - bar.start))

\* variant B updateProgress that ignores calls on a completed tracker
UpdateBSticky(bar, t, value) ==
  LET sampled == IF Throttled(bar, t) THEN bar
                 ELSE [bar EXCEPT !.lastUpdate = t, !.lastValue = value]
  IN  IF bar.speed = Done THEN bar
      ELSE BarUpdate(sampled, value, SpeedB(bar, t, value),
                     EtaOf(bar.total, value, t - bar.start))

\* variant B updateProgress that restarts the clock of the tracker with
\* every sample (bar.start = now in place of bar.lastUpdate = now)
UpdateBRestarts(bar, t, value) ==
  LET sampled == IF Throttled(bar, t) THEN bar
                 ELSE [bar EXCEPT !.start = t, !.lastValue = value]
  IN  BarUpdate(sampled, value, SpeedB(bar, t, value),
                EtaOf(bar.total, value, t - bar.start))

\* variant B updateProgress that takes a sample with every call
UpdateBAlwaysSamples(bar, t, value) ==
  BarUpdate([bar EXCEPT !.lastUpdate = t, !.lastValue = value], value,
            SpeedB(bar, t, value), EtaOf(bar.total, value, t - bar.start))

\* variant B updateProgress whose ETA counts the time since the last sample
UpdateBEtaSinceSample(bar, t, value) ==
  LET sampled == IF Throttled(bar, t) THEN bar
                 ELSE [bar EXCEPT !.lastUpdate = t, !.lastValue = value]
  IN  BarUpdate(sampled, value, SpeedB(bar, t, value),
                EtaOf(bar.total, value, t - bar.lastUpdate))

\* the calls that can raise in updateProgress: the two toFixed calls reached
\* at clock reading t (variant A: both behind elapsedTime > 0; variant B: the
\* speed behind timeDiff >= 0.1, the ETA behind elapsedTime > 0)
UpdateAThrows(bar, t) ==
  t - bar.start > 0 /\ (ToFixedThrows(SpeedDigits) \/ ToFixedThrows(EtaDigits))

UpdateBThrows(bar, t) ==
  \/ ~Throttled(bar, t) /\ ToFixedThrows(SpeedDigits)
  \/ t - bar.start > 0 /\ ToFixedThrows(EtaDigits)

\* variant B updateProgress at clock reading t
UpdateB(bar, t, value) ==
  LET sampled == IF Throttled(bar, t) THEN bar
                 ELSE [bar EXCEPT !.lastUpdate = t, !.lastValue = value]
  IN  BarUpdate(sampled, value, SpeedB(bar, t, value),
                EtaOf(bar.total, value, t - bar.start))

\* completeProgress that updates no value
CompleteAKeepsValue(bar) == bar

\* completeProgress by bar.increment(bar.total)
CompleteAIncrement(bar) == BarUpdateValue(bar, bar.value + bar.total)

\* variant A completeProgress: bar.update(bar.total)
CompleteA(bar) == BarUpdateValue(bar, bar.total)

\* variant B completeProgress: bar.update(bar.total, {speed: "Done", eta: "0"})
CompleteB(bar) == BarUpdate(bar, bar.total, Done, Zero)

(* ------------------------------ actions -------------------------------- *)

NoCall == [op |-> "none", value |-> 0, dt |-> 0]

\* position in the scenario create("x", 100); update(t, 0) at once;
\* update(t, 50) ten seconds after creation; complete(t)
ScenAfterCreate(totalSize) == IF totalSize = 100 THEN "created" ELSE "off"

ScenAfterUpdate(s, elapsedMs, value) ==
  IF s = "created" /\ value = 0 /\ elapsedMs = 0 THEN "zero"
  ELSE IF s = "zero" /\ value = 50 /\ elapsedMs = 10000 THEN "half"
  ELSE "off"

ScenAfterComplete(s) == IF s = "half" THEN "completed" ELSE "off"

\* no disk, no probe, no result yet
NoProbe == [ramQ |-> 0, hasC |-> FALSE, sizeGB |-> 0, percentageFree |-> 0,
            others |-> FALSE, throws |-> FALSE]

NoResult == [checked |-> FALSE, success |-> FALSE, issues |-> {}]

NoFolders == [done |-> FALSE, ok |-> FALSE, dirs |-> {}, readmes |-> {}]

\* the application before main() runs
AppInit ==
  /\ pc = "main"
  /\ admin = "none"
  /\ exitCode = -1
  /\ started = {}
  /\ action = "none"
  /\ confirmAll = "none"
  /\ stage = 0
  /\ rounds = 0
  /\ caller = "none"
  /\ probe = NoProbe
  /\ checkResult = NoResult
  /\ fsSize = <<>>
  /\ internalDisks = <<>>
  /\ selectedDrives = <<>>
  /\ confirmFormat = "none"
  /\ di = 0
  /\ formatCmds = <<>>
  /\ folders = NoFolders
  /\ category = "none"
  /\ components = <<>>
  /\ ci = 0
  /\ ran = <<>>
  /\ doneMsg = FALSE
  /\ running = 0
  /\ anyTracker = FALSE

\* no step entered yet
StepIdle ==
  /\ kind = "none"
  /\ phase = "idle"
  /\ temp = "none"
  /\ downloaded = 0
  /\ fi = 0

\* the logger module after import: let logger = null, no logger created
LogInit ==
  /\ logClock = 0
  /\ nlog = 0
  /\ loggerV1 = 0
  /\ createdV1 = 0
  /\ filesV1 = {}
  /\ retV1 = {}
  /\ createdV2 = 0
  /\ defaultV2 = 0
  /\ filesV2 = {}
  /\ retV2 = {}

Init ==
  /\ AppInit
  /\ StepIdle
  /\ LogInit
  /\ now = 0
  /\ made = FALSE
  /\ barA = NoBar
  /\ barB = NoBar
  /\ out = 0
  /\ call = NoCall
  /\ ncalls = 0
  /\ prevA = NoBar
  /\ prevB = NoBar
  /\ prevCall = NoCall
  /\ prevOut = 0
  /\ mono = TRUE
  /\ everCompleted = FALSE
  /\ scen = "start"
  /\ stopped = FALSE
  /\ threw = FALSE
  /\ step = 0
  /\ interval = 0

\* what every call records about the state it started from
Remember ==
  /\ prevA' = barA
  /\ prevB' = barB
  /\ prevCall' = call
  /\ prevOut' = out

CreateCall(totalSize, skew) ==
  /\ ~made
  /\ made' = TRUE
  /\ barA' = CreateA(totalSize, now)
  /\ barB' = CreateB(totalSize, now, now + skew)
  /\ now' = now + skew
  /\ out' = out + 1
  /\ call' = [op |-> "create", value |-> totalSize, dt |-> skew]
  /\ scen' = ScenAfterCreate(totalSize)
  /\ Remember
  /\ UNCHANGED <<ncalls, mono, everCompleted, step, interval, stopped, threw>>

createProgressBar(totalSize, skew) ==
  /\ CreateCall(totalSize, skew)
  /\ UNCHANGED <<appVars, stepVars, logVars>>

UpdateCall(dt, value) ==
  /\ made
  /\ now' = now + dt
  /\ barA' = IF UpdateAThrows(barA, now') THEN barA ELSE UpdateA(barA, now', value)
  /\ barB' = IF UpdateBThrows(barB, now') THEN barB ELSE UpdateB(barB, now', value)
  /\ threw' = (threw \/ UpdateAThrows(barA, now') \/ UpdateBThrows(barB, now'))
  /\ call' = [op |-> "update", value |-> value, dt |-> dt]
  /\ ncalls' = ncalls + 1
  /\ mono' = (/\ mono
              /\ value <= barA.total
              /\ (call.op = "update" => value >= call.value))
  /\ scen' = ScenAfterUpdate(scen, now' - barA.start, value)
  /\ Remember
  /\ UNCHANGED <<made, out, everCompleted, step, interval, stopped>>

updateProgress(dt, value) ==
  /\ UpdateCall(dt, value)
  /\ UNCHANGED <<appVars, stepVars, logVars>>

CompleteCall ==
  /\ made
  /\ barA' = CompleteA(barA)
  /\ barB' = CompleteB(barB)
  /\ out' = out + 1
  /\ call' = [op |-> "complete", value |-> 0, dt |-> 0]
  /\ ncalls' = ncalls + 1
  /\ mono' = FALSE
  /\ everCompleted' = TRUE
  /\ scen' = ScenAfterComplete(scen)
  /\ Remember
  /\ UNCHANGED <<now, made, step, interval, stopped, threw>>

completeProgress ==
  /\ CompleteCall
  /\ UNCHANGED <<appVars, stepVars, logVars>>

\* stopAllProgress: multiBar.stop(); no bar is touched
StopCall ==
  /\ stopped' = TRUE
  /\ call' = [op |-> "stop", value |-> 0, dt |-> 0]
  /\ ncalls' = ncalls + 1
  /\ scen' = "off"
  /\ Remember
  /\ UNCHANGED <<now, made, barA, barB, out, mono, everCompleted, step,
                 interval, threw>>

stopAllProgress ==
  /\ StopCall
  /\ UNCHANGED <<appVars, stepVars, logVars>>

\* any caller: arbitrary values at arbitrary times
Next ==
  \/ \E totalSize \in Totals, skew \in Skews : createProgressBar(totalSize, skew)
  \/ /\ ncalls < MaxCalls
     /\ \E dt \in Deltas, value \in ValuesFor(barA.total) : updateProgress(dt, value)
  \/ /\ ncalls < MaxCalls
     /\ completeProgress
  \/ /\ ncalls < MaxCalls
     /\ stopAllProgress

Spec == Init /\ [][Next]_vars

(* ----------------------- the constant-rate caller ---------------------- *)

\* steps and intervals of a constant-rate caller
RateSteps == {1, 2, 10, 50}

RateIntervals == {50, 100, 1000, 10000}

InitRate ==
  /\ AppInit
  /\ StepIdle
  /\ LogInit
  /\ now = 0
  /\ made = FALSE
  /\ barA = NoBar
  /\ barB = NoBar
  /\ out = 0
  /\ call = NoCall
  /\ ncalls = 0
  /\ prevA = NoBar
  /\ prevB = NoBar
  /\ prevCall = NoCall
  /\ prevOut = 0
  /\ mono = TRUE
  /\ everCompleted = FALSE
  /\ scen = "start"
  /\ stopped = FALSE
  /\ threw = FALSE
  /\ step \in RateSteps
  /\ interval \in RateIntervals

\* the k-th update comes k intervals after creation and carries k steps,
\* until the value has reached the total
NextRate ==
  \/ \E totalSize \in Totals : createProgressBar(totalSize, 0)
  \/ /\ ncalls < MaxSteps
     /\ barA.value < barA.total
     /\ updateProgress(interval, (ncalls + 1) * step)

SpecRate == InitRate /\ [][NextRate]_vars

(* ============================ the application ========================== *)

(* ------------------------------ bounds --------------------------------- *)

\* number of menu prompts answered in one run
MaxRounds == 2

\* number of file systems si.fsSize() reports
MaxDisks == 2

(* ------------------------------ helpers -------------------------------- *)

\* the elements of a set of numbers in increasing order
RECURSIVE SortedSeq(_)
SortedSeq(S) ==
  IF S = {} THEN <<>>
  ELSE LET m == CHOOSE x \in S : \A y \in S : x <= y
       IN  <<m>> \o SortedSeq(S \ {m})

\* the elements of a sequence
Range(q) == {q[i] : i \in DOMAIN q}

\* the answers to a confirm prompt
Answers == {"yes", "no"}

\* String.prototype.toLowerCase / toUpperCase, character by character
LowerChar(c) ==
  IF c = "C" THEN "c" ELSE IF c = "D" THEN "d" ELSE IF c = "E" THEN "e" ELSE c

UpperChar(c) ==
  IF c = "c" THEN "C" ELSE IF c = "d" THEN "D" ELSE IF c = "e" THEN "E" ELSE c

ToLowerCase(str) == [i \in DOMAIN str |-> LowerChar(str[i])]

\* disk.mount.charAt(0).toUpperCase(): "" for the empty string
DriveLetterOf(mount) == IF mount = <<>> THEN "" ELSE UpperChar(mount[1])

(* ----------------------------- main (index.js) ------------------------- *)

\* main that only warns when the administrator check fails
AfterIsAdminWarnOnly(r) ==
  IF r = "throws" THEN [pc |-> "exited", exitCode |-> 0]
  ELSE [pc |-> "parse", exitCode |-> -1]

\* after isAdmin(): false -> process.exit(1); a rejection is caught by main,
\* which then returns and the process ends
AfterIsAdmin(r) ==
  IF r = "yes" THEN [pc |-> "parse", exitCode |-> -1]
  ELSE IF r = "no" THEN [pc |-> "exited", exitCode |-> 1]
  ELSE [pc |-> "exited", exitCode |-> 0]

MainIsAdmin(r) ==
  /\ pc = "main"
  /\ admin' = IF r = "throws" THEN "none" ELSE r
  /\ pc' = AfterIsAdmin(r).pc
  /\ exitCode' = AfterIsAdmin(r).exitCode
  /\ UNCHANGED <<started, action, confirmAll, stage, rounds, caller, probe,
                 checkResult, fsSize, internalDisks, selectedDrives,
                 confirmFormat, di, formatCmds, folders, category, components,
                 ci, ran, doneMsg>>
  /\ UNCHANGED <<running, anyTracker>>
  /\ UNCHANGED <<progVars, stepVars, logVars>>

\* program.parse: --skip-checks skips the system check
MainParse(skipChecks) ==
  /\ pc = "parse"
  /\ pc' = IF skipChecks THEN "menu" ELSE "check"
  /\ caller' = IF skipChecks THEN caller ELSE "main"
  /\ UNCHANGED <<admin, exitCode, started, action, confirmAll, stage, rounds,
                 probe, checkResult, fsSize, internalDisks, selectedDrives,
                 confirmFormat, di, formatCmds, folders, category, components,
                 ci, ran, doneMsg>>
  /\ UNCHANGED <<running, anyTracker>>
  /\ UNCHANGED <<progVars, stepVars, logVars>>

(* ------------------------ checkSystemRequirements ---------------------- *)

\* 8 (GB of RAM) and 50 (GB of free space)
MinRamGB == 8

MinFreeGB == 50

\* mem.total in quarters of a GiB; -1 stands for an undefined percentageFree
Probes ==
  [ramQ : {29, 30, 32, 64}, hasC : BOOLEAN, sizeGB : {100, 500},
   percentageFree : {-1, 5, 50, 95}, others : BOOLEAN, throws : BOOLEAN]

\* Math.round(mem.total / 1024 / 1024 / 1024)
RamGB(p) == (p.ramQ + 2) \div 4

\* systemDrive.size - systemDrive.size * (systemDrive.percentageFree / 100),
\* in hundredths of a GB
FreeSpaceX100(p) == p.sizeGB * 100 - p.sizeGB * p.percentageFree

\* the issues pushed; a comparison with NaN (undefined percentageFree) is false
IssuesOf(p) ==
  (IF p.others THEN {"other"} ELSE {})
  \cup (IF RamGB(p) < MinRamGB THEN {"ram"} ELSE {})
  \cup (IF p.hasC /\ p.percentageFree >= 0 /\ FreeSpaceX100(p) < MinFreeGB * 100
        THEN {"disk"} ELSE {})

\* the value returned: success iff no issue; a failed probe is caught
CheckSystem(p) ==
  IF p.throws THEN [checked |-> TRUE, success |-> FALSE, issues |-> {"failed"}]
  ELSE [checked |-> TRUE, success |-> IssuesOf(p) = {}, issues |-> IssuesOf(p)]

checkSystemRequirements(p) ==
  /\ pc = "check"
  /\ started' = started \cup {"check"}
  /\ probe' = p
  /\ checkResult' = CheckSystem(p)
  /\ pc' = "opDone"
  /\ UNCHANGED <<admin, exitCode, action, confirmAll, stage, rounds, caller,
                 fsSize, internalDisks, selectedDrives, confirmFormat, di,
                 formatCmds, folders, category, components, ci, ran, doneMsg>>
  /\ UNCHANGED <<running, anyTracker>>
  /\ UNCHANGED <<progVars, stepVars, logVars>>

\* main: "Do you want to proceed anyway?"; no -> process.exit(0)
MainProceed(ans) ==
  /\ pc = "proceed"
  /\ pc' = IF ans = "yes" THEN "menu" ELSE "exited"
  /\ exitCode' = IF ans = "yes" THEN exitCode ELSE 0
  /\ UNCHANGED <<admin, started, action, confirmAll, stage, rounds, caller,
                 probe, checkResult, fsSize, internalDisks, selectedDrives,
                 confirmFormat, di, formatCmds, folders, category, components,
                 ci, ran, doneMsg>>
  /\ UNCHANGED <<running, anyTracker>>
  /\ UNCHANGED <<progVars, stepVars, logVars>>

(* ------------------------------ displayMenu ---------------------------- *)

MenuChoices == {"check", "drives", "gaming", "dev", "optimize", "all", "exit"}

\* the operations of the complete setup, in the order they are awaited
AllOps == <<"check", "drives", "gaming", "dev", "optimize">>

DisplayMenu(choice) ==
  /\ pc = "menu"
  /\ rounds' = rounds + 1
  /\ started' = started \cup {"menu"}
  /\ action' = choice
  /\ confirmAll' = "none"
  /\ stage' = 0
  /\ caller' = "menu"
  /\ pc' = IF choice = "exit" THEN "exited"
           ELSE IF choice = "all" THEN "confirmAll" ELSE choice
  /\ exitCode' = IF choice = "exit" THEN 0 ELSE exitCode
  /\ UNCHANGED <<admin, probe, checkResult, fsSize, internalDisks,
                 selectedDrives, confirmFormat, di, formatCmds, folders,
                 category, components, ci, ran, doneMsg>>
  /\ UNCHANGED <<running, anyTracker>>
  /\ UNCHANGED <<progVars, stepVars, logVars>>

\* case 'all': the confirmAll prompt
ConfirmAll(ans) ==
  /\ pc = "confirmAll"
  /\ confirmAll' = ans
  /\ stage' = IF ans = "yes" THEN 1 ELSE stage
  /\ caller' = caller
  /\ pc' = IF ans = "yes" THEN AllOps[1] ELSE "return"
  /\ UNCHANGED <<admin, exitCode, started, action, rounds, probe, checkResult,
                 fsSize, internalDisks, selectedDrives, confirmFormat, di,
                 formatCmds, folders, category, components, ci, ran, doneMsg>>
  /\ UNCHANGED <<running, anyTracker>>
  /\ UNCHANGED <<progVars, stepVars, logVars>>

\* an awaited operation has returned and its locals are gone: main goes on
\* after its check, the complete setup awaits its next operation, any other
\* case of the switch ends
OpDone ==
  /\ pc = "opDone"
  /\ IF caller = "main"
       THEN /\ pc' = IF checkResult.success THEN "menu" ELSE "proceed"
            /\ stage' = stage
       ELSE IF action = "all" /\ stage < Len(AllOps)
       THEN /\ stage' = stage + 1
            /\ pc' = AllOps[stage + 1]
       ELSE /\ stage' = stage
            /\ pc' = "return"
  /\ caller' = "none"
  /\ probe' = NoProbe
  /\ checkResult' = NoResult
  /\ fsSize' = <<>>
  /\ internalDisks' = <<>>
  /\ selectedDrives' = <<>>
  /\ confirmFormat' = "none"
  /\ di' = 0
  /\ formatCmds' = <<>>
  /\ folders' = NoFolders
  /\ category' = "none"
  /\ components' = <<>>
  /\ ci' = 0
  /\ ran' = <<>>
  /\ doneMsg' = FALSE
  /\ UNCHANGED <<admin, exitCode, started, action, confirmAll, rounds>>
  /\ UNCHANGED <<running, anyTracker>>
  /\ UNCHANGED <<progVars, stepVars, logVars>>

\* "Return to main menu?": yes -> displayMenu(), no -> process.exit(0)
ReturnToMenu(ans) ==
  /\ pc = "return"
  /\ pc' = IF ans = "yes" THEN "menu" ELSE "exited"
  /\ exitCode' = IF ans = "yes" THEN exitCode ELSE 0
  /\ UNCHANGED <<admin, started, action, confirmAll, stage, rounds, caller,
                 probe, checkResult, fsSize, internalDisks, selectedDrives,
                 confirmFormat, di, formatCmds, folders, category, components,
                 ci, ran, doneMsg>>
  /\ UNCHANGED <<running, anyTracker>>
  /\ UNCHANGED <<progVars, stepVars, logVars>>

(* ------------------------- setupDrives (driveSetup.js) ------------------ *)

\* the file systems si.fsSize() may report: mount as its characters, and type
DiskKinds ==
  { [mount |-> <<"C", ":">>, type |-> "NTFS"],
    [mount |-> <<"c", ":">>, type |-> "NTFS"],
    [mount |-> <<"C", ":", "\\">>, type |-> "NTFS"],
    [mount |-> <<>>, type |-> "NTFS"],
    [mount |-> <<"D", ":">>, type |-> "NTFS"],
    [mount |-> <<"e", ":">>, type |-> "NTFS"],
    [mount |-> <<"D", ":">>, type |-> "removable"] }

FsSizeResults ==
  UNION {[1..n -> DiskKinds] : n \in 0..MaxDisks}

\* the filter of internalDisks: not the system drive, a mount point, not
\* removable
IsInternal(disk) ==
  IF ToLowerCase(disk.mount) = <<"c", ":">> THEN FALSE
  ELSE IF disk.mount = <<>> THEN FALSE
  ELSE IF disk.type = "removable" THEN FALSE
  ELSE TRUE

\* the checkbox answers: the checked choices in the order of the choices
Selections(n) == {SortedSeq(S) : S \in SUBSET (1..n)}

\* si.fsSize() and the filter; nothing left, or a rejection caught by the
\* outer catch, ends the operation
SetupDrivesDetect(result, rejects) ==
  /\ pc = "drives"
  /\ fsSize' = IF rejects THEN <<>> ELSE result
  /\ internalDisks' = IF rejects THEN <<>> ELSE SelectSeq(result, IsInternal)
  /\ pc' = IF rejects \/ SelectSeq(result, IsInternal) = <<>>
           THEN "opDone" ELSE "selectDrives"
  /\ UNCHANGED <<admin, exitCode, started, action, confirmAll, stage, rounds,
                 caller, probe, checkResult, selectedDrives, confirmFormat, di,
                 formatCmds, folders, category, components, ci, ran, doneMsg>>
  /\ UNCHANGED <<running, anyTracker>>
  /\ UNCHANGED <<progVars, stepVars, logVars>>

\* "Select drives to format": no drive selected ends the operation
SelectDrives(sel) ==
  /\ pc = "selectDrives"
  /\ selectedDrives' = sel
  /\ pc' = IF sel = <<>> THEN "opDone" ELSE "confirmFormat"
  /\ UNCHANGED <<admin, exitCode, started, action, confirmAll, stage, rounds,
                 caller, probe, checkResult, fsSize, internalDisks,
                 confirmFormat, di, formatCmds, folders, category, components,
                 ci, ran, doneMsg>>
  /\ UNCHANGED <<running, anyTracker>>
  /\ UNCHANGED <<progVars, stepVars, logVars>>

\* a setupDrives that formats whatever the answer is
AfterConfirmFormatAnyway(ans) == "format"

\* "WARNING: Formatting will erase ALL data": anything but yes cancels
AfterConfirmFormat(ans) == IF ans = "yes" THEN "format" ELSE "opDone"

ConfirmFormat(ans) ==
  /\ pc = "confirmFormat"
  /\ confirmFormat' = ans
  /\ di' = 1
  /\ pc' = AfterConfirmFormat(ans)
  /\ UNCHANGED <<admin, exitCode, started, action, confirmAll, stage, rounds,
                 caller, probe, checkResult, fsSize, internalDisks,
                 selectedDrives, formatCmds, folders, category, components, ci,
                 ran, doneMsg>>
  /\ UNCHANGED <<running, anyTracker>>
  /\ UNCHANGED <<progVars, stepVars, logVars>>

\* some entries of folderStructure, as path segments
FolderStructure ==
  << <<"Apps", "Games", "Steam", "Files">>,
     <<"Documents", "Miscellaneous">>,
     <<"Share", "Media", "Videos", "Clips">> >>

\* the directories fs.ensureDir makes for a path: the path and its parents
Prefixes(path) == {SubSeq(path, 1, k) : k \in 1..Len(path)}

\* where createFolderStructure may fail: nowhere (0), or at an entry
FailPoints == 0..Len(FolderStructure)

\* createFolderStructure: for each entry ensureDir, then README.md in that
\* folder; a failure at entry failAt (in writeFile when inWrite) is caught
CreateFolderStructure(failAt, inWrite) ==
  LET n == IF failAt = 0 THEN Len(FolderStructure) ELSE failAt - 1
      made_ == UNION {Prefixes(FolderStructure[i]) : i \in 1..n}
      part == IF failAt # 0 /\ inWrite
              THEN Prefixes(FolderStructure[failAt]) ELSE {}
  IN  [done |-> TRUE, ok |-> failAt = 0, dirs |-> made_ \cup part,
       readmes |-> {FolderStructure[i] : i \in 1..n}]

\* a call that is not awaited: the caller goes on at once
AfterCallNoAwait(loopPc, awaitPc) == loopPc

\* await: the caller stands still until the call has settled
AfterCall(loopPc, awaitPc) == awaitPc

\* one round of the loop over selectedDrives begins: the format command of
\* the drive letter is started
FormatCall ==
  /\ pc = "format"
  /\ LET idx == selectedDrives[di]
         disk == internalDisks[idx]
     IN  formatCmds' = Append(formatCmds,
                              [index |-> idx, disk |-> disk,
                               letter |-> DriveLetterOf(disk.mount),
                               state |-> "running", foldersOn |-> ""])
  /\ started' = started \cup {"format"}
  /\ running' = running + 1
  /\ pc' = AfterCall("format", "awaitFormat")
  /\ UNCHANGED <<admin, exitCode, action, confirmAll, stage, rounds, caller,
                 probe, checkResult, fsSize, internalDisks, selectedDrives,
                 confirmFormat, di, folders, category, components, ci, ran,
                 doneMsg, anyTracker>>
  /\ UNCHANGED <<progVars, stepVars, logVars>>

\* createFolderStructure whatever the format command did
FoldersAfterFormatAlways(formatOk) == TRUE

\* createFolderStructure(driveLetter) follows the format command inside the
\* try: it is reached only when the command succeeded
FoldersAfterFormat(formatOk) == formatOk

\* the format command has settled: the folder structure on the same drive
\* letter when it succeeded; a failed format is caught and the loop goes on
FormatDrive(formatOk, failAt, inWrite) ==
  /\ pc = "awaitFormat"
  /\ LET cmd == formatCmds[Len(formatCmds)]
     IN  formatCmds' =
           [formatCmds EXCEPT ![Len(formatCmds)] =
              [cmd EXCEPT !.state = IF formatOk THEN "ok" ELSE "failed",
                          !.foldersOn = IF FoldersAfterFormat(formatOk)
                                        THEN cmd.letter ELSE ""]]
  /\ folders' = IF FoldersAfterFormat(formatOk)
                THEN CreateFolderStructure(failAt, inWrite) ELSE NoFolders
  /\ anyTracker' = (anyTracker \/ FoldersAfterFormat(formatOk))
  /\ running' = running - 1
  /\ di' = di + 1
  /\ pc' = IF di = Len(selectedDrives) THEN "opDone" ELSE "format"
  /\ UNCHANGED <<admin, exitCode, started, action, confirmAll, stage, rounds,
                 caller, probe, checkResult, fsSize, internalDisks,
                 selectedDrives, confirmFormat, category, components, ci, ran,
                 doneMsg>>
  /\ UNCHANGED <<progVars, stepVars, logVars>>

(* ------------- installGamingDependencies / installDeveloperTools -------- *)

\* the values of the checkbox choices, in their order
GamingChoices == <<"vcredist", "directx", "drivers", "steam", "epic", "ubisoft">>

DevChoices == <<"python", "nodejs", "vscode", "docker", "ollama", "java", "git">>

ChoicesOf(cat) == IF cat = "gaming" THEN GamingChoices ELSE DevChoices

\* an install step can reject: all but installHardwareDrivers run
\* fs.ensureDir(tempDir) and fs.remove(tempDir) outside their try
CanEscape(component) == component # "drivers"

StepOutcomes(component) ==
  IF CanEscape(component) THEN {"returns", "rejects"} ELSE {"returns"}

\* the checkbox prompt: nothing selected ends the operation
SelectComponents(S) ==
  /\ pc \in {"gaming", "dev"}
  /\ S \subseteq DOMAIN ChoicesOf(pc)
  /\ category' = pc
  /\ components' = [i \in 1..Cardinality(S) |-> ChoicesOf(pc)[SortedSeq(S)[i]]]
  /\ ci' = 1
  /\ ran' = <<>>
  /\ doneMsg' = FALSE
  /\ pc' = IF S = {} THEN "opDone" ELSE "install"
  /\ UNCHANGED <<admin, exitCode, started, action, confirmAll, stage, rounds,
                 caller, probe, checkResult, fsSize, internalDisks,
                 selectedDrives, confirmFormat, di, formatCmds, folders>>
  /\ UNCHANGED <<running, anyTracker>>
  /\ UNCHANGED <<progVars, stepVars, logVars>>

\* whether the step had created a progress tracker when it settled: a step
\* that returns has passed createProgressBar (installHardwareDrivers has
\* none); one that rejects did so in fs.ensureDir, before it, or in
\* fs.remove, after it
TrackerMade(component, outcome) ==
  IF component = "drivers" THEN {FALSE}
  ELSE IF outcome = "returns" THEN {TRUE}
  ELSE BOOLEAN

\* one round of the loop over components begins: the install step is called
InstallCall ==
  /\ pc = "install"
  /\ ran' = Append(ran, components[ci])
  /\ started' = started \cup {"install"}
  /\ running' = running + 1
  /\ pc' = AfterCall("install", "awaitInstall")
  /\ UNCHANGED <<admin, exitCode, action, confirmAll, stage, rounds, caller,
                 probe, checkResult, fsSize, internalDisks, selectedDrives,
                 confirmFormat, di, formatCmds, folders, category, components,
                 ci, doneMsg, anyTracker>>
  /\ UNCHANGED <<progVars, stepVars, logVars>>

\* the install step has settled: a rejection leaves the loop for the outer
\* catch; after the last step the completion message is printed
InstallStep(outcome, tracked) ==
  /\ pc = "awaitInstall"
  /\ outcome \in StepOutcomes(components[ci])
  /\ tracked \in TrackerMade(components[ci], outcome)
  /\ anyTracker' = (anyTracker \/ tracked)
  /\ running' = running - 1
  /\ ci' = ci + 1
  /\ doneMsg' = (outcome = "returns" /\ ci = Len(components))
  /\ pc' = IF outcome = "rejects" \/ ci = Len(components)
           THEN "opDone" ELSE "install"
  /\ UNCHANGED <<admin, exitCode, started, action, confirmAll, stage, rounds,
                 caller, probe, checkResult, fsSize, internalDisks,
                 selectedDrives, confirmFormat, di, formatCmds, folders,
                 category, components, ran>>
  /\ UNCHANGED <<progVars, stepVars, logVars>>

(* ------------------------------ optimizeSystem -------------------------- *)

\* the selected optimizations run one after the other; each catches its own
\* errors
optimizeSystem(anySelected) ==
  /\ pc = "optimize"
  /\ started' = IF anySelected THEN started \cup {"optimize"} ELSE started
  /\ pc' = "opDone"
  /\ UNCHANGED <<admin, exitCode, action, confirmAll, stage, rounds, caller,
                 probe, checkResult, fsSize, internalDisks, selectedDrives,
                 confirmFormat, di, formatCmds, folders, category, components,
                 ci, ran, doneMsg>>
  /\ UNCHANGED <<running, anyTracker>>
  /\ UNCHANGED <<progVars, stepVars, logVars>>

(* --------------------------- the application run ------------------------ *)

NextApp ==
  \/ \E r \in {"yes", "no", "throws"} : MainIsAdmin(r)
  \/ \E skipChecks \in BOOLEAN : MainParse(skipChecks)
  \/ \E p \in Probes : checkSystemRequirements(p)
  \/ \E ans \in Answers : MainProceed(ans)
  \/ /\ rounds < MaxRounds
     /\ \E choice \in MenuChoices : DisplayMenu(choice)
  \/ \E ans \in Answers : ConfirmAll(ans)
  \/ OpDone
  \/ \E ans \in Answers : ReturnToMenu(ans)
  \/ \E result \in FsSizeResults, rejects \in BOOLEAN :
       SetupDrivesDetect(result, rejects)
  \/ \E sel \in Selections(Len(internalDisks)) : SelectDrives(sel)
  \/ \E ans \in Answers : ConfirmFormat(ans)
  \/ FormatCall
  \/ \E formatOk \in BOOLEAN, failAt \in FailPoints, inWrite \in BOOLEAN :
       FormatDrive(formatOk, failAt, inWrite)
  \/ \E S \in SUBSET (1..7) : SelectComponents(S)
  \/ InstallCall
  \/ \E outcome \in {"returns", "rejects"}, tracked \in BOOLEAN :
       InstallStep(outcome, tracked)
  \/ \E anySelected \in BOOLEAN : optimizeSystem(anySelected)

SpecApp == Init /\ [][NextApp]_vars

(* ------------------------------ properties ----------------------------- *)

\* a call (updateProgress or completeProgress) has just been made
Called == made /\ ncalls >= 1 /\ call.op \in {"update", "complete"}

\* the value a call asks the tracker to show: its argument, or the total
Asked(bar) == IF call.op = "update" THEN call.value ELSE bar.total

Min(a, b) == IF a <= b THEN a ELSE b

\* a tracker with a positive total
WellFormed == made /\ barA.total > 0

\* the last call is an updateProgress with a value within [0, total]
InRange == call.op = "update" => call.value \in 0..barA.total

\* C1 (as stated): whatever values updateProgress/completeProgress are called
\* with, the tracker's current value never decreases.  Stated for trackers
\* with total > 0 and values within [0, total], where clamping plays no part.
C1_NeverDecreases ==
  Called /\ WellFormed /\ Asked(prevA) \in 0..barA.total =>
    /\ barA.value >= prevA.value
    /\ barB.value >= prevB.value

\* C1 (amended): a call never lowers current unless it asks for less than
\* current: a call asking for at least the current value leaves current at
\* least as large, and a call asking for less sets current to what it asks.
C1_DecreasesOnlyWhenAsked ==
  Called =>
    /\ Asked(prevA) >= prevA.value => barA.value >= prevA.value
    /\ Asked(prevB) >= prevB.value => barB.value >= prevB.value
    /\ Asked(prevA) < prevA.value => barA.value = Asked(prevA)
    /\ Asked(prevB) < prevB.value => barB.value = Asked(prevB)

C1_Witness ==
  /\ Called
  /\ call.op = "update"
  /\ prevA.value > 0
  /\ call.value > prevA.value
  /\ barA.value > prevA.value
  /\ barB.value > prevB.value

C3_CurrentIsMin ==
  Called /\ mono /\ barA.total > 0 =>
    /\ barA.value = Min(call.value, barA.total)
    /\ barB.value = Min(call.value, barB.total)

C3_Witness ==
  /\ Called
  /\ mono
  /\ barA.total > 0
  /\ prevCall.op = "update"
  /\ call.value > prevCall.value
  /\ barA.value = call.value

\* C4: completeProgress leaves current = total, whatever the tracker's state
\* before (just created, partly updated, updated past total, completed).
C4_CompleteReachesTotal ==
  Called /\ call.op = "complete" =>
    /\ barA.value = barA.total
    /\ barB.value = barB.total

C4_Witness ==
  /\ Called
  /\ call.op = "complete"
  /\ prevA.value > prevA.total
  /\ prevA.total > 0
  /\ barA.value = barA.total

\* C5 (as stated): of two consecutive updateProgress calls, the second reports
\* the rate of the first when it comes less than 100 ms after it, and a
\* different rate when it comes at least 100 ms after it with another value.
\* Stated for values within [0, total] and a first call that reported a
\* computed rate.
C5_RateThrottled ==
  /\ Called /\ WellFormed /\ InRange
  /\ call.op = "update" /\ prevCall.op = "update"
  /\ prevCall.value \in 0..barA.total
  /\ prevA.speed.k = "num" /\ prevB.speed.k = "num"
  =>
    /\ call.dt < ThrottleMs =>
         /\ barA.speed = prevA.speed
         /\ barB.speed = prevB.speed
    /\ call.dt >= ThrottleMs /\ call.value # prevCall.value =>
         /\ barA.speed # prevA.speed
         /\ barB.speed # prevB.speed

\* C6 (as stated): updateProgress with value 0, or with no time elapsed since
\* creation, reports both rate and ETA as the unknown placeholder.
C6_UnknownOnZero ==
  Called /\ WellFormed /\ call.op = "update" /\ (call.value = 0 \/ now = barA.start) =>
    /\ barA.speed = NA /\ barA.eta = NA
    /\ barB.speed = NA /\ barB.eta = NA

\* a number text without regard to its unit suffix
IsNum(t, n) == t.k = "num" /\ t.n = n

\* C7 (as stated): create("x", 100); update(t, 0) reports rate and ETA
\* unknown; update(t, 50) ten seconds after creation reports rate 5 and
\* ETA 10; complete(t) then yields current = 100 and ETA = 0.
C7_Scenario ==
  /\ scen = "zero" =>
       /\ barA.speed = NA /\ barA.eta = NA
       /\ barB.speed = NA /\ barB.eta = NA
  /\ scen = "half" =>
       /\ IsNum(barA.speed, 500) /\ IsNum(barA.eta, 10)
       /\ IsNum(barB.speed, 500) /\ IsNum(barB.eta, 10)
  /\ scen = "completed" =>
       /\ barA.value = 100 /\ IsNum(barA.eta, 0)
       /\ barB.value = 100 /\ IsNum(barB.eta, 0)

\* the ETA text as a number of seconds, when it is one
EtaIsNumber(t) == t.k \in {"num", "negzero"}

\* C8: for a constant-rate caller the ETA of successive updateProgress calls
\* never increases, and it is 0 when the value has reached the total.
C8_EtaNonIncreasing ==
  Called /\ call.op = "update" =>
    /\ EtaIsNumber(barA.eta) /\ EtaIsNumber(barB.eta)
    /\ prevCall.op = "update" =>
         /\ barA.eta.n <= prevA.eta.n
         /\ barB.eta.n <= prevB.eta.n
    /\ barA.value = barA.total =>
         /\ barA.eta = Zero
         /\ barB.eta = Zero

C8_Witness ==
  /\ Called
  /\ prevCall.op = "update"
  /\ call.op = "update"
  /\ barA.total = 100 /\ step = 10 /\ interval = 10000
  /\ barA.value = barA.total
  /\ prevA.eta.n > 0 /\ prevB.eta.n > 0
  /\ barA.eta = Zero

\* the display of a completed tracker: variant B shows "Done" and "0"
CompletedDisplay == barB.speed = Done /\ barB.eta = Zero

\* C9 (as stated): once completeProgress has been called, no later
\* updateProgress moves the tracker back: current stays equal to total and
\* the completed display is retained.
C9_NoWayBack ==
  everCompleted /\ WellFormed /\ InRange =>
    /\ barA.value = barA.total
    /\ barB.value = barB.total
    /\ CompletedDisplay

\* C9 (amended): a completed tracker stays completed only until the next
\* updateProgress: completeProgress leaves current = total with the completed
\* display, and an updateProgress after completion is accepted like any
\* other, current becomes its value and the completed display is replaced.
C9_UpdateReopens ==
  everCompleted =>
    /\ call.op = "complete" =>
         /\ barA.value = barA.total
         /\ barB.value = barB.total
         /\ CompletedDisplay
    /\ call.op = "update" =>
         /\ barA.value = call.value
         /\ barB.value = call.value
         /\ barB.speed # Done

C9_Witness ==
  /\ everCompleted
  /\ prevCall.op = "complete"
  /\ call.op = "update"
  /\ call.value < barA.total
  /\ barA.value = call.value
  /\ barB.value = call.value
  /\ ~CompletedDisplay

\* C10 (as stated): completeProgress on an already completed tracker leaves
\* current, rate text, ETA text and the emitted output lines as they were.
C10_Idempotent ==
  Called /\ WellFormed /\ prevCall.op = "complete" /\ call.op = "complete" =>
    /\ barA = prevA
    /\ barB = prevB
    /\ out = prevOut

\* C10 (amended): completeProgress on an already completed tracker leaves
\* current, rate text and ETA text as they were, and emits one more
\* (empty) output line.
C10_IdempotentButForOutput ==
  Called /\ prevCall.op = "complete" /\ call.op = "complete" =>
    /\ barA = prevA
    /\ barB = prevB
    /\ out = prevOut + 1

C10_Witness ==
  /\ Called
  /\ prevCall.op = "complete"
  /\ call.op = "complete"
  /\ barA.total > 0
  /\ barA = prevA
  /\ out = prevOut + 1

\* C11 (as stated): after completeProgress the displayed rate is the "Done"
\* marker and the displayed ETA is zero, whatever was displayed before.
C11_DoneDisplay ==
  Called /\ WellFormed /\ call.op = "complete" =>
    /\ barA.speed = Done /\ barA.eta = Zero
    /\ barB.speed = Done /\ barB.eta = Zero

\* C12: updateProgress and completeProgress never raise an error, for any
\* value (zero, negative, above total), any total (also <= 0) and any
\* elapsed time (also zero).
C12_NeverThrows == ~threw

C12_Witness ==
  /\ Called
  /\ ~threw
  /\ barA.total <= 0
  /\ prevCall.op = "update" /\ prevCall.value < 0 /\ prevA.speed = NA
  /\ call.op = "update" /\ call.value = 0 /\ call.dt > 0
  /\ barA.eta.k \in {"NaN", "NegInf"}

\* C13: no updateProgress, completeProgress or stopAllProgress changes the
\* tracker's total or its creation timestamp.
C13_TotalAndStartFixed ==
  made /\ call.op \in {"update", "complete", "stop"} =>
    /\ barA.total = prevA.total /\ barA.start = prevA.start
    /\ barB.total = prevB.total /\ barB.start = prevB.start

C13_Witness ==
  /\ made
  /\ call.op = "update"
  /\ prevCall.op = "stop"
  /\ barB.lastUpdate > barB.start + 1
  /\ barA.total = 100
  /\ barB.start = prevB.start

\* C14: for total > 0 the tracker returned by createProgressBar has
\* current = 0, the given total, and rate and ETA shown as "N/A".
C14_FreshTracker ==
  made /\ call.op = "create" /\ call.value > 0 =>
    /\ barA.value = 0 /\ barA.total = call.value
    /\ barA.speed = NA /\ barA.eta = NA
    /\ barB.value = 0 /\ barB.total = call.value
    /\ barB.speed = NA /\ barB.eta = NA

C14_Witness ==
  /\ made
  /\ call.op = "create"
  /\ call.value = 100
  /\ barA.total = 100 /\ barA.value = 0
  /\ barB.total = 100 /\ barB.value = 0

(* ============ one download step, one createFolderStructure ============== *)
(* The steps that own a tracker, call by call: a download step as in        *)
(* installNodejs (temp directory, tracker, fetch, data events, finish,      *)
(* installer, clean-up) and createFolderStructure (tracker, one update per  *)
(* entry of folderStructure).  They drive the progress utility above.       *)

\* declared sizes of a download, in the unit of the tracker
StepSizes == {4, 100}

\* what a data event adds to downloadedSize
Chunks == {1, 3, 60}

\* Math.min(downloadedSize, size) left out
ChunkValueRaw(downloadedSize, size) == downloadedSize

\* the value a data event reports: Math.min(downloadedSize, size)
ChunkValue(downloadedSize, size) == Min(downloadedSize, size)

\* a catch block that returns from the step
AfterCatchReturns(k) == "returned"

\* after the catch block: a download step goes on to fs.remove(tempDir),
\* createFolderStructure returns
AfterCatch(k) == IF k = "download" THEN "cleanup" ELSE "returned"

\* the step is entered
StepEnter(k) ==
  /\ phase = "idle"
  /\ kind' = k
  /\ phase' = IF k = "download" THEN "ensureDir" ELSE "createBar"
  /\ UNCHANGED <<temp, downloaded, fi>>
  /\ UNCHANGED <<progVars, appVars, logVars>>

\* await fs.ensureDir(tempDir), outside the try: a rejection ends the step
EnsureTemp(ok) ==
  /\ phase = "ensureDir"
  /\ temp' = IF ok THEN "made" ELSE "none"
  /\ phase' = IF ok THEN "createBar" ELSE "rejected"
  /\ UNCHANGED <<kind, downloaded, fi>>
  /\ UNCHANGED <<progVars, appVars, logVars>>

\* createProgressBar(task, size), or ('Creating folders', folderStructure.length)
StepCreateBar(size, skew) ==
  /\ phase = "createBar"
  /\ CreateCall(IF kind = "download" THEN size ELSE Len(FolderStructure), skew)
  /\ phase' = IF kind = "download" THEN "fetch" ELSE "folders"
  /\ UNCHANGED <<kind, temp, downloaded, fi>>
  /\ UNCHANGED <<appVars, logVars>>

\* await fetch(url): a rejection is caught
Fetch(ok) ==
  /\ phase = "fetch"
  /\ phase' = IF ok THEN "stream" ELSE AfterCatch(kind)
  /\ UNCHANGED <<kind, temp, downloaded, fi>>
  /\ UNCHANGED <<progVars, appVars, logVars>>

\* a data event: downloadedSize += chunk; updateProgress(bar, Math.min(...))
Chunk(dt, chunk) ==
  /\ phase = "stream"
  /\ downloaded' = downloaded + chunk
  /\ UpdateCall(dt, ChunkValue(downloaded + chunk, barA.total))
  /\ UNCHANGED <<kind, phase, temp, fi>>
  /\ UNCHANGED <<appVars, logVars>>

\* the promise settles: 'finish' of the file stream resolves it, 'error' of
\* the response body rejects it, which is caught
StreamEnd(ok) ==
  /\ phase = "stream"
  /\ phase' = IF ok THEN "complete" ELSE AfterCatch(kind)
  /\ UNCHANGED <<kind, temp, downloaded, fi>>
  /\ UNCHANGED <<progVars, appVars, logVars>>

\* completeProgress(progressBar)
StepComplete ==
  /\ phase = "complete"
  /\ CompleteCall
  /\ phase' = IF kind = "download" THEN "exec" ELSE "returned"
  /\ UNCHANGED <<kind, temp, downloaded, fi>>
  /\ UNCHANGED <<appVars, logVars>>

\* await execPromise(installer): it succeeds, or the failure is caught
Exec ==
  /\ phase = "exec"
  /\ phase' = "cleanup"
  /\ UNCHANGED <<kind, temp, downloaded, fi>>
  /\ UNCHANGED <<progVars, appVars, logVars>>

\* await fs.remove(tempDir), outside the try: a rejection ends the step
RemoveTemp(ok) ==
  /\ phase = "cleanup"
  /\ temp' = IF ok THEN "removed" ELSE "stuck"
  /\ phase' = IF ok THEN "returned" ELSE "rejected"
  /\ UNCHANGED <<kind, downloaded, fi>>
  /\ UNCHANGED <<progVars, appVars, logVars>>

\* createFolderStructure, one entry done: ensureDir, writeFile, then
\* updateProgress(progressBar, i + 1); after the last entry the loop ends
FolderEntry(dt) ==
  /\ phase = "folders"
  /\ fi' = fi + 1
  /\ UpdateCall(dt, fi + 1)
  /\ phase' = IF fi + 1 = Len(FolderStructure) THEN "complete" ELSE "folders"
  /\ UNCHANGED <<kind, temp, downloaded>>
  /\ UNCHANGED <<appVars, logVars>>

\* createFolderStructure, ensureDir or writeFile of an entry rejects: caught
FolderEntryFails ==
  /\ phase = "folders"
  /\ phase' = AfterCatch(kind)
  /\ UNCHANGED <<kind, temp, downloaded, fi>>
  /\ UNCHANGED <<progVars, appVars, logVars>>

NextStep ==
  \/ \E k \in {"download", "folders"} : StepEnter(k)
  \/ \E ok \in BOOLEAN : EnsureTemp(ok)
  \/ \E size \in StepSizes, skew \in Skews : StepCreateBar(size, skew)
  \/ \E ok \in BOOLEAN : Fetch(ok)
  \/ /\ ncalls < MaxCalls
     /\ \E dt \in Deltas, chunk \in Chunks : Chunk(dt, chunk)
  \/ \E ok \in BOOLEAN : StreamEnd(ok)
  \/ StepComplete
  \/ Exec
  \/ \E ok \in BOOLEAN : RemoveTemp(ok)
  \/ \E dt \in Deltas : FolderEntry(dt)
  \/ FolderEntryFails

SpecStep == Init /\ [][NextStep]_vars

(* ====================== the logger module (logger.js) =================== *)

\* number of initLogger/getLogger calls made in one process
MaxLogCalls == 4

\* milliseconds between two calls, as new Date().toISOString() shows them
LogTicks == {0, 1}

\* first variant, initLogger: if (logger) return logger; else createLogger
\* with a pair of files named by the timestamp, kept in the module variable
InitLoggerV1 ==
  IF loggerV1 # 0
    THEN /\ retV1' = retV1 \cup {loggerV1}
         /\ UNCHANGED <<loggerV1, createdV1, filesV1>>
    ELSE /\ createdV1' = createdV1 + 1
         /\ loggerV1' = createdV1 + 1
         /\ filesV1' = filesV1 \cup {logClock'}
         /\ retV1' = retV1 \cup {createdV1 + 1}

\* first variant, getLogger: return logger || initLogger()
GetLoggerV1 == InitLoggerV1

\* second variant, initLogger: const logger = winston.createLogger with a
\* pair of files named by the timestamp; no module variable, no guard
InitLoggerV2 ==
  /\ createdV2' = createdV2 + 1
  /\ filesV2' = filesV2 \cup {logClock'}
  /\ retV2' = retV2 \cup {createdV2 + 1}
  /\ UNCHANGED defaultV2

\* second variant, getLogger: winston.loggers.get('default'), which makes a
\* logger of its own (no file) the first time and returns that one after
GetLoggerV2 ==
  IF defaultV2 # 0
    THEN /\ retV2' = retV2 \cup {defaultV2}
         /\ UNCHANGED <<createdV2, defaultV2, filesV2>>
    ELSE /\ createdV2' = createdV2 + 1
         /\ defaultV2' = createdV2 + 1
         /\ retV2' = retV2 \cup {createdV2 + 1}
         /\ UNCHANGED filesV2

\* one initLogger() call, made on both variants
initLogger(tick) ==
  /\ logClock' = logClock + tick
  /\ nlog' = nlog + 1
  /\ InitLoggerV1
  /\ InitLoggerV2
  /\ UNCHANGED <<progVars, appVars, stepVars>>

\* one getLogger() call, made on both variants
getLogger(tick) ==
  /\ logClock' = logClock + tick
  /\ nlog' = nlog + 1
  /\ GetLoggerV1
  /\ GetLoggerV2
  /\ UNCHANGED <<progVars, appVars, stepVars>>

NextLog ==
  \/ /\ nlog < MaxLogCalls
     /\ \E tick \in LogTicks : initLogger(tick)
  \/ /\ nlog < MaxLogCalls
     /\ \E tick \in LogTicks : getLogger(tick)

SpecLog == Init /\ [][NextLog]_vars

(* --------------------- properties of the application -------------------- *)

\* C15: setupDrives never formats the system drive: every drive it passes to
\* the format command has a non-empty mount point, is not C: whatever the
\* letter case or spelling of the mount, and is not of type removable.
C15_SystemDriveNeverFormatted ==
  \A i \in DOMAIN formatCmds :
    /\ formatCmds[i].disk.mount # <<>>
    /\ formatCmds[i].letter # "C"
    /\ formatCmds[i].disk.type # "removable"

\* C16: a drive is formatted only after it was checked in the selection and
\* confirmFormat was answered yes, and on the complete-setup path only after
\* confirmAll was answered yes too; an empty selection or a no formats nothing.
C16_DoubleConfirmation ==
  /\ formatCmds # <<>> =>
       /\ confirmFormat = "yes"
       /\ Len(formatCmds) <= Len(selectedDrives)
       /\ \A i \in DOMAIN formatCmds : formatCmds[i].index = selectedDrives[i]
       /\ (action = "all" => confirmAll = "yes")
  /\ (selectedDrives = <<>> \/ confirmFormat # "yes") => formatCmds = <<>>

C16_Witness ==
  /\ action = "all"
  /\ confirmAll = "yes"
  /\ confirmFormat = "yes"
  /\ Len(selectedDrives) = 2
  /\ Len(formatCmds) = 2

\* C17: without administrator rights the process exits with code 1 before any
\* system check, menu action, drive format, installer or optimization starts;
\* whatever has started, started with administrator rights.
C17_AdminGate ==
  /\ started # {} => admin = "yes"
  /\ admin = "no" => pc = "exited" /\ exitCode = 1 /\ started = {}

C17_Witness == admin = "no" /\ pc = "exited" /\ exitCode = 1

\* C18: after createFolderStructure succeeded, every directory it created,
\* the intermediate parents included, holds a README file.
C18_EveryDirectoryHasReadme ==
  (folders.done /\ folders.ok) => folders.dirs \subseteq folders.readmes

\* an installer has returned to the menu
InstallerReturned == category # "none" /\ pc = "opDone"

\* C19: with a custom selection each install step runs exactly when its
\* component was selected, once, in the order of the selection; with nothing
\* selected no step runs and no completion message is printed.
C19_CustomSelection ==
  /\ category # "none" =>
       /\ Len(ran) <= Len(components)
       /\ \A i \in DOMAIN ran : ran[i] = components[i]
  /\ InstallerReturned =>
       /\ ran = components
       /\ (components = <<>> => ~doneMsg)

\* the free space of the system drive in hundredths of a GB
ActualFreeX100(p) == p.sizeGB * p.percentageFree

\* C20: checkSystemRequirements reports the free-space issue exactly when the
\* system drive has less than 50 GB free, and the RAM issue exactly when the
\* total memory rounds to less than 8 GB.
C20_RequirementIssues ==
  (checkResult.checked /\ ~probe.throws /\ probe.hasC
     /\ probe.percentageFree >= 0) =>
    /\ ("disk" \in checkResult.issues) <=>
         (ActualFreeX100(probe) < MinFreeGB * 100)
    /\ ("ram" \in checkResult.issues) <=> (RamGB(probe) < MinRamGB)
    /\ checkResult.success <=> (checkResult.issues = {})

(* ------------------ properties of the progress utility, ctd. ------------ *)

\* the last call is an updateProgress; now is the clock reading it took
Updated == made /\ call.op = "update"

\* C25: updateProgress overwrites the last sample (lastUpdate, lastValue)
\* only when at least 100 ms have passed since lastUpdate: a call made sooner
\* leaves both fields as they were, and after an overwrite they are the
\* call's clock reading and value.
C25_SampleFrame ==
  Updated =>
    IF now - prevB.lastUpdate >= ThrottleMs
      THEN barB.lastUpdate = now /\ barB.lastValue = call.value
      ELSE barB.lastUpdate = prevB.lastUpdate
           /\ barB.lastValue = prevB.lastValue

C25_Witness ==
  /\ Updated
  /\ prevCall.op = "update"
  /\ prevB.lastValue # 0
  /\ now - prevB.lastUpdate < ThrottleMs
  /\ call.value # prevB.lastValue
  /\ barB.lastValue = prevB.lastValue

\* the text is the whole number nearest to num / den (den > 0)
NearestTo(t, num, den) ==
  EtaIsNumber(t) /\ 2 * Abs(t.n * den - num) <= den

\* C26: for every updateProgress call with value > 0 and elapsed time since
\* creation > 0 the reported ETA is (total - value) / (value / elapsed),
\* printed in whole seconds: it comes from the all-time average rate and not
\* from the last sample.
C26_EtaFromAverage ==
  (Updated /\ call.value > 0 /\ now - barA.start > 0) =>
    /\ NearestTo(barA.eta, (barA.total - call.value) * (now - barA.start),
                 call.value * 1000)
    /\ NearestTo(barB.eta, (barB.total - call.value) * (now - barB.start),
                 call.value * 1000)

C26_Witness ==
  /\ Updated
  /\ call.value > 0
  /\ call.value < barB.total
  /\ prevCall.op = "update"
  /\ barB.lastUpdate # now
  /\ barB.lastUpdate # barB.start
  /\ barB.eta.k = "num"
  /\ barB.eta.n > 0

\* C27: driven side by side by the same createProgressBar/updateProgress
\* calls with the same clock readings and values, the two variants show the
\* same current value and the same ETA after every updateProgress; only the
\* speed differs.
C27_VariantsAgree ==
  (Updated /\ ~everCompleted) =>
    /\ barA.value = barB.value
    /\ barA.eta = barB.eta
    /\ barA.total = barB.total
    /\ barA.start = barB.start

C27_Witness ==
  /\ Updated
  /\ ~everCompleted
  /\ prevCall.op = "update"
  /\ barA.eta.k = "num"
  /\ barA.eta.n > 0
  /\ barA.speed.k = "num"
  /\ barB.speed.k = "num"
  /\ barA.speed.n # barB.speed.n

(* ----------------------- properties of the logger ----------------------- *)

\* first variant: one logger, one pair of files, every call returns it
SingletonV1 ==
  /\ createdV1 <= 1
  /\ Cardinality(filesV1) <= 1
  /\ Cardinality(retV1) <= 1

\* second variant: the same
SingletonV2 ==
  /\ createdV2 <= 1
  /\ Cardinality(filesV2) <= 1
  /\ Cardinality(retV2) <= 1

\* C23: whatever initLogger and getLogger calls a process makes, at most one
\* logger (and one pair of log files) is ever created and every call returns
\* that same logger.
C23_LoggerSingleton == SingletonV1 /\ SingletonV2

(* ------------------ properties of the application, ctd. ----------------- *)

\* C22: in every run that creates a tracker, stopAllProgress is called
\* before the process exits, on every exit path.
C22_StoppedBeforeExit ==
  (pc = "exited" /\ anyTracker) => stopped

\* C24: at most one install step or format command is in progress at any
\* time: the next one is started only after the one before has finished or
\* failed, on the complete-setup path too.
C24_OneStepAtATime ==
  /\ running <= 1
  /\ running = 1 <=> pc \in {"awaitInstall", "awaitFormat"}

C24_Witness ==
  /\ action = "all"
  /\ stage >= 3
  /\ "format" \in started
  /\ Len(ran) = 2
  /\ running = 1

\* C29: the folder structure is created on a drive only after the format
\* command for that same drive has succeeded; after a failed format no
\* folder is created on the drive and the other selected drives are still
\* processed.
C29_FoldersOnlyAfterFormat ==
  /\ \A i \in DOMAIN formatCmds :
       /\ formatCmds[i].foldersOn \in {"", formatCmds[i].letter}
       /\ formatCmds[i].foldersOn # "" => formatCmds[i].state = "ok"
       /\ formatCmds[i].state = "failed" => formatCmds[i].foldersOn = ""
  /\ (pc = "opDone" /\ confirmFormat = "yes") =>
       /\ Len(formatCmds) = Len(selectedDrives)
       /\ \A i \in DOMAIN formatCmds : formatCmds[i].state # "running"

C29_Witness ==
  /\ pc = "opDone"
  /\ Len(formatCmds) = 2
  /\ formatCmds[1].state = "failed"
  /\ formatCmds[1].foldersOn = ""
  /\ formatCmds[2].state = "ok"
  /\ formatCmds[2].foldersOn = formatCmds[2].letter

(* -------------------- properties of the tracked steps ------------------- *)

\* the step has ended, by returning or by rejecting
StepEnded == phase \in {"returned", "rejected"}

\* C21: every tracker created by a download step or by folder creation is
\* completed in the end (completeProgress called, current = total), also when
\* the download, the file write or a folder operation fails.
C21_TrackerCompleted ==
  (StepEnded /\ made) =>
    /\ everCompleted
    /\ barA.value = barA.total
    /\ barB.value = barB.total

\* C28: the calls a step makes on its tracker are create, then updates with
\* non-decreasing values that never exceed the total, then at most one
\* complete; no updateProgress follows the completeProgress.
C28_CallSequence ==
  /\ call.op = "update" =>
       /\ mono
       /\ ~everCompleted
       /\ call.value <= barA.total
       /\ call.value >= prevA.value
       /\ prevCall.op \in {"create", "update"}
  /\ call.op = "complete" => prevCall.op \in {"create", "update"}
  /\ everCompleted => call.op = "complete"
  /\ made => call.op \in {"create", "update", "complete"}

C28_Witness ==
  /\ kind = "download"
  /\ everCompleted
  /\ prevCall.op = "update"
  /\ prevCall.value = barA.total
  /\ downloaded > barA.total

\* C30: an installer step that created its temporary directory removes it
\* before it returns, whether the download and the installation succeeded or
\* failed.
C30_TempDirRemoved ==
  kind = "download" =>
    /\ phase = "returned" => temp = "removed"
    /\ StepEnded => temp # "made"

C30_Witness ==
  /\ kind = "download"
  /\ phase = "returned"
  /\ temp = "removed"
  /\ made
  /\ ~everCompleted

====
